---- MODULE Spec2Model ----
(***************************************************************************)
(* Phase-averaging engine of amtools (post_processing/phase_average.py):   *)
(* phase_average_array (degrees, scalar mean/std) and phase_average_field  *)
(* (cycle fraction, mean vector/covariance), and the PhaseAverageResult    *)
(* accessors; AnimationControl (pyvista_tools/animation_control.py); and   *)
(* the combined reads of CaseReader (input_output/case_reader.py).         *)
(*                                                                         *)
(* Numbers.  numpy computes in binary floating point; the model computes   *)
(* in exact rational arithmetic.  A number is a pair <<n, d>> in lowest    *)
(* terms with d > 0; NaN is the pair <<0, 0>>.  A square root is kept      *)
(* symbolically as [radicand |-> r], so that sqrt is injective and exact.  *)
(***************************************************************************)
EXTENDS Integers, Sequences, FiniteSets, TLC

VARIABLES args, result, outcome, called, history, got, control, frames,
          reader

vars == <<args, result, outcome, called, history, got, control, frames,
          reader>>

\* the calls a caller has made so far and what its last accessor returned
sessionVars == <<history, got>>
\* an AnimationControl object and how the last call on it ended
controlVars == <<control, frames>>
\* the engine's call record
engineVars == <<args, result, outcome, called>>

(***************************************************************************)
(* Bounds of the model.                                                    *)
(***************************************************************************)
\* longest sample series drawn by InitGeneral
MaxLen == 3
\* largest number_of_bins drawn by InitGeneral
MaxBins == 3
\* component count k of the vector samples given to phase_average_field
NumComponents == 2
\* most calls one caller makes in a session
MaxCalls == 3
\* most time directories of one function object
MaxDirs == 3

(***************************************************************************)
(* Exact rational arithmetic.                                              *)
(***************************************************************************)
Abs(n) == IF n < 0 THEN -n ELSE n

RECURSIVE GCD(_, _)
GCD(a, b) == IF b = 0 THEN a ELSE GCD(b, a % b)

Rat(n, d) ==
    LET s == IF d < 0 THEN -1 ELSE 1
        g == GCD(Abs(n), Abs(d))
    IN  <<(s * n) \div g, (s * d) \div g>>

Num(n) == <<n, 1>>
Zero == <<0, 1>>
One == <<1, 1>>
Half == <<1, 2>>
NaN == <<0, 0>>
None == <<>>

RAdd(a, b) == Rat(a[1] * b[2] + b[1] * a[2], a[2] * b[2])
RSub(a, b) == Rat(a[1] * b[2] - b[1] * a[2], a[2] * b[2])
RMul(a, b) == Rat(a[1] * b[1], a[2] * b[2])
RDiv(a, b) == Rat(a[1] * b[2], a[2] * b[1])
RLess(a, b) == a[1] * b[2] < b[1] * a[2]
RLeq(a, b) == a[1] * b[2] <= b[1] * a[2]
RFloor(a) == a[1] \div a[2]
\* Python's float %: the result takes the sign of the (positive) divisor
RMod(a, p) == RSub(a, RMul(p, Num(RFloor(RDiv(a, p)))))

RECURSIVE RSum(_)
RSum(s) == IF s = <<>> THEN Zero ELSE RAdd(Head(s), RSum(Tail(s)))

RECURSIVE IntSum(_)
IntSum(s) == IF s = <<>> THEN 0 ELSE Head(s) + IntSum(Tail(s))

Sqrt(r) == [radicand |-> r]

\* a sequence given by its elements, evaluated once into a tuple
Arr(f) == f \o <<>>

(***************************************************************************)
(* numpy primitives used by the engine.                                    *)
(***************************************************************************)
\* np.linspace(0, stop, n + 1): n + 1 evenly spaced edges, stop * i / n
Linspace(stop, n) == Arr([i \in 1..(n + 1) |-> RDiv(RMul(stop, Num(i - 1)), Num(n))])

\* (bins[1:] + bins[0:-1]) * 0.5
MidpointsAsLeftEdges(bins) == Arr([i \in 1..(Len(bins) - 1) |-> bins[i]])

Midpoints(bins) ==
    Arr([i \in 1..(Len(bins) - 1) |-> RMul(RAdd(bins[i + 1], bins[i]), Half)])

\* np.digitize requires monotonic bins; the engine's edge lists start at 0 and
\* end at the period, so monotonic means non-decreasing here
Monotonic(bins) == \A i \in 1..(Len(bins) - 1) : RLeq(bins[i], bins[i + 1])

\* np.digitize(x, bins), right=False, increasing bins: the index i with
\* bins[i-1] <= x < bins[i], i.e. the number of edges <= x
DigitizeStrict(x, bins) == Cardinality({i \in 1..Len(bins) : RLess(bins[i], x)})

Digitize(x, bins) == Cardinality({i \in 1..Len(bins) : RLeq(bins[i], x)})

\* arr[inds == i]: the entries of arr whose bin index is i, in order
RECURSIVE Pick(_, _, _)
Pick(arr, inds, i) ==
    IF arr = <<>> THEN <<>>
    ELSE (IF Head(inds) = i THEN <<Head(arr)>> ELSE <<>>)
             \o Pick(Tail(arr), Tail(inds), i)

\* np.mean of a non-empty 1-D group
NpMeanAsSum(group) == RSum(group)

NpMean(group) == RDiv(RSum(group), Num(Len(group)))

\* np.std of a non-empty 1-D group: population standard deviation
NpStd(group) ==
    LET m == NpMean(group)
        sq == Arr([i \in 1..Len(group) |->
                  RMul(RSub(group[i], m), RSub(group[i], m))])
    IN  Sqrt(NpMean(sq))

\* np.argsort of distinct keys (ties, which do not occur, by position)
ArgSortIdentity(keys) == Arr([r \in 1..Len(keys) |-> r])

ArgSort(keys) ==
    LET rank(i) == 1 + Cardinality({j \in 1..Len(keys) :
                        \/ RLess(keys[j], keys[i])
                        \/ (keys[j] = keys[i] /\ j < i)})
    IN  Arr([r \in 1..Len(keys) |-> CHOOSE i \in 1..Len(keys) : rank(i) = r])

\* arr[inds]
Take(arr, inds) == Arr([r \in 1..Len(inds) |-> arr[inds[r]]])

Contains(arr, x) == \E i \in 1..Len(arr) : arr[i] = x

RECURSIVE SeqMax(_)
SeqMax(s) ==
    IF Len(s) = 1 THEN s[1]
    ELSE LET m == SeqMax(Tail(s)) IN IF RLess(m, Head(s)) THEN Head(s) ELSE m

(***************************************************************************)
(* Program constants.                                                      *)
(***************************************************************************)
\* the period of phase_average_array, in degrees
Degrees == 360
ArrayPeriod == Num(Degrees)
\* the period of phase_average_field, in cycle fraction (1.0)
FieldPeriod == One

(***************************************************************************)
(* Bin grid builder: the edges and midpoints for number_of_bins and        *)
(* bin_center_offset, as both functions build them.                        *)
(***************************************************************************)
\* the offset used when bin_center_offset is None: half a bin width
DefaultOffset(period, number_of_bins) ==
    RDiv(RMul(period, Half), Num(number_of_bins))

EffectiveOffset(period, number_of_bins, bin_center_offset) ==
    IF bin_center_offset = None
    THEN DefaultOffset(period, number_of_bins)
    ELSE bin_center_offset

\* bins = bins + offset; bins = np.insert(bins, 0, 0); bins[-1] = period
ShiftedEdges(bins, offset, period) ==
    LET shifted == Arr([i \in 1..Len(bins) |-> RAdd(bins[i], offset)])
        inserted == <<Zero>> \o shifted
    IN  [inserted EXCEPT ![Len(inserted)] = period]

\* bin_midpoints = (bin_midpoints + offset) % period
ShiftedMidpoints(mids, offset, period) ==
    Arr([i \in 1..Len(mids) |-> RMod(RAdd(mids[i], offset), period)])

BinGrid(period, number_of_bins, bin_center_offset) ==
    LET bins0 == Linspace(period, number_of_bins)
        mids0 == Midpoints(bins0)
        off == EffectiveOffset(period, number_of_bins, bin_center_offset)
        ok(b, m) == [raised |-> "none", bins |-> b, bin_midpoints |-> m,
                     bin_center_offset |-> off]
        err(e) == [raised |-> e, bins |-> <<>>, bin_midpoints |-> <<>>,
                   bin_center_offset |-> off]
    IN  IF off = Zero THEN ok(bins0, mids0)
        ELSE IF RLess(off, Zero) THEN err("ValueError")
        ELSE IF number_of_bins - 1 = 0 THEN err("ZeroDivisionError")
        ELSE IF RLess(RDiv(period, Num(number_of_bins - 1)), off)
             THEN err("ValueError")
        ELSE ok(ShiftedEdges(bins0, off, period),
                ShiftedMidpoints(mids0, off, period))

(***************************************************************************)
(* Binned reducer and result assembler, shared steps.                      *)
(***************************************************************************)
\* bin_inds = np.digitize(phase_arr, bins)
BinInds(phase_arr, bins) ==
    Arr([i \in 1..Len(phase_arr) |-> Digitize(phase_arr[i], bins)])

\* [y_arr[bin_inds == i] for i in range(1, number_of_bins + 2)]
BinnedGroups(y_arr, bin_inds, number_of_bins) ==
    Arr([i \in 1..(number_of_bins + 1) |-> Pick(y_arr, bin_inds, i)])

\* base == "time": [tmp[bin_inds == i] / np.sum(deltaT[bin_inds == i]) ...]
\* with tmp = y_arr * deltaT; an empty group stays empty
TimeWeightedGroups(y_arr, deltaT, bin_inds, number_of_bins) ==
    LET tmp == Arr([j \in 1..Len(y_arr) |-> RMul(y_arr[j], deltaT[j])])
        grp(i) == Pick(tmp, bin_inds, i)
        dts(i) == RSum(Pick(deltaT, bin_inds, i))
    IN  Arr([i \in 1..(number_of_bins + 1) |->
            Arr([j \in 1..Len(grp(i)) |-> RDiv(grp(i)[j], dts(i))])])

\* binned[-1] = np.concatenate((binned[0], binned[-1])); binned = binned[1:]
MergeKeepFirst(binned) == SubSeq(binned, 1, Len(binned) - 1)

MergeDropFirst(binned) == Tail(binned)

MergeWraparound(binned) ==
    LET n == Len(binned)
    IN  Tail([binned EXCEPT ![n] = binned[1] \o binned[n]])

\* [len(arr) for arr in binned_y_arr]
GroupLens(binned) == Arr([i \in 1..Len(binned) |-> Len(binned[i])])

EmptyResult ==
    [bin_midpoints |-> <<>>, phase_averaged_mean |-> <<>>,
     phase_averaged_std |-> <<>>, phase_averaged_covariance |-> <<>>,
     bin_counts |-> <<>>]

Raise(e) == [raised |-> e, result |-> EmptyResult]
Return(r) == [raised |-> "none", result |-> r]

(***************************************************************************)
(* phase_average_array                                                     *)
(***************************************************************************)
\* the tolerance 1e-3 of the frequency match
FrequencyTolerance == <<1, 1000>>

\* np.mean(np.diff(t_arr)): nan for fewer than two samples
MeanDiff(t_arr) ==
    IF Len(t_arr) < 2 THEN NaN
    ELSE NpMean(Arr([i \in 1..(Len(t_arr) - 1) |->
                    RSub(t_arr[i + 1], t_arr[i])]))

\* np.fft.fftfreq(n, d): [0, 1, ..., (n-1)//2, -(n//2), ..., -1] / (d * n)
FftFreq(n, d) ==
    LET npos == ((n - 1) \div 2) + 1
        k(i) == IF i <= npos THEN i - 1 ELSE i - 1 - n
    IN  Arr([i \in 1..n |->
            IF d = NaN THEN NaN ELSE RDiv(Num(k(i)), RMul(d, Num(n)))])

\* z * exp(-2j * pi * q / 4) for a complex number z = <<re, im>>
QuarterTurn(z, q) ==
    CASE q = 0 -> z
      [] q = 1 -> <<z[2], RSub(Zero, z[1])>>
      [] q = 2 -> <<RSub(Zero, z[1]), RSub(Zero, z[2])>>
      [] q = 3 -> <<RSub(Zero, z[2]), z[1]>>

RECURSIVE CSum(_)
CSum(zs) ==
    IF zs = <<>> THEN <<Zero, Zero>>
    ELSE LET r == CSum(Tail(zs))
         IN  <<RAdd(Head(zs)[1], r[1]), RAdd(Head(zs)[2], r[2])>>

\* np.fft.fft(y_arr) for a real series whose length divides 4, so that
\* every twiddle factor exp(-2j * pi * j * k / n) is a power of -1j
Fft(y_arr) ==
    LET n == Len(y_arr)
        step == CASE n = 1 -> 0 [] n = 2 -> 2 [] n = 4 -> 1
    IN  Arr([k \in 1..n |->
            CSum(Arr([j \in 1..n |->
                QuarterTurn(<<y_arr[j], Zero>>,
                            ((k - 1) * (j - 1) * step) % 4)]))])

\* np.degrees(np.angle(z)) where it is a multiple of 45 degrees; a zero
\* imaginary part left of the origin counts as +0.0 (-0.0 gives -180,
\* the same phase modulo 360)
AngleDegrees(z) ==
    LET re == z[1]
        im == z[2]
        neg(x) == RLess(x, Zero)
        pos(x) == RLess(Zero, x)
    IN  CASE im = Zero /\ ~neg(re) -> Zero
          [] im = Zero /\ neg(re) -> Num(180)
          [] re = Zero /\ pos(im) -> Num(90)
          [] re = Zero /\ neg(im) -> Num(-90)
          [] pos(re) /\ im = re -> Num(45)
          [] pos(re) /\ im = RSub(Zero, re) -> Num(-45)
          [] neg(re) /\ im = RSub(Zero, re) -> Num(135)
          [] neg(re) /\ im = re -> Num(-135)

\* np.abs(frequencies - frequency) < 1e-3, elementwise; nan compares False
FrequencyMatch(frequencies, frequency) ==
    Arr([i \in 1..Len(frequencies) |->
        /\ frequencies[i] # NaN
        /\ LET diff == RSub(frequencies[i], frequency)
               mag == IF RLess(diff, Zero) THEN RSub(Zero, diff) ELSE diff
           IN  RLess(mag, FrequencyTolerance)])

\* np.argmax of a boolean array: the first True, or the first element when
\* there is none (1-based)
ArgMax(mask) ==
    IF \E i \in 1..Len(mask) : mask[i]
    THEN CHOOSE i \in 1..Len(mask) :
             mask[i] /\ \A j \in 1..(i - 1) : ~mask[j]
    ELSE 1

\* the remove_phase_offset branch up to y_arr_phase
PhaseOfSignal(t_arr, y_arr, frequency) ==
    LET frequencies == FftFreq(Len(y_arr), MeanDiff(t_arr))
        fft_values == Fft(y_arr)
        index == ArgMax(FrequencyMatch(frequencies, frequency))
    IN  RAdd(AngleDegrees(fft_values[index]), Num(90))

\* np.mod(phase_arr + y_arr_phase, 360)
CorrectedPhase(phase_arr, y_arr_phase) ==
    Arr([i \in 1..Len(phase_arr) |->
        RMod(RAdd(phase_arr[i], y_arr_phase), ArrayPeriod)])

\* (np.degrees(2 * np.pi * frequency * t_arr) + phase_offset) % 360
ArrayPhase(t_arr, frequency, phase_offset) ==
    Arr([i \in 1..Len(t_arr) |->
        RMod(RAdd(RMul(ArrayPeriod, RMul(frequency, t_arr[i])), phase_offset),
             ArrayPeriod)])

ArrayStd(binned) ==
    Arr([i \in 1..Len(binned) |->
        IF Len(binned[i]) > 0 THEN NpStd(binned[i]) ELSE Sqrt(Zero)])

ArrayMean(binned, base) ==
    Arr([i \in 1..Len(binned) |->
        IF Len(binned[i]) > 0
        THEN (IF base = "time" THEN RSum(binned[i]) ELSE NpMean(binned[i]))
        ELSE Zero])

phase_average_array(a) ==
    LET grid == BinGrid(ArrayPeriod, a.number_of_bins, a.bin_center_offset)
        phase_arr == ArrayPhase(a.t_arr, a.frequency, a.phase_offset)
        bin_inds ==
            IF a.remove_phase_offset
            THEN BinInds(CorrectedPhase(phase_arr,
                             PhaseOfSignal(a.t_arr, a.y_arr, a.frequency)),
                         grid.bins)
            ELSE BinInds(phase_arr, grid.bins)
        raw == IF a.base = "time" /\ ~a.remove_phase_offset
               THEN TimeWeightedGroups(a.y_arr, a.deltaT, bin_inds,
                                       a.number_of_bins)
               ELSE BinnedGroups(a.y_arr, bin_inds, a.number_of_bins)
        binned == IF grid.bin_center_offset # Zero
                  THEN MergeWraparound(raw) ELSE raw
        std == ArrayStd(binned)
        mean == ArrayMean(binned, a.base)
        inds == ArgSort(grid.bin_midpoints)
        mids_s == Take(grid.bin_midpoints, inds)
        std_s == Take(std, inds)
        mean_s == Take(mean, inds)
        wrap == a.include_wrap /\ Contains(mids_s, Zero)
    IN  IF grid.raised # "none" THEN Raise(grid.raised)
        \* np.fft.fft of an empty series: ValueError
        ELSE IF a.remove_phase_offset /\ Len(a.y_arr) = 0
        THEN Raise("ValueError")
        ELSE IF ~Monotonic(grid.bins) THEN Raise("ValueError")
        ELSE Return(
            [bin_midpoints |->
                 IF wrap THEN Append(mids_s, ArrayPeriod) ELSE mids_s,
             phase_averaged_mean |->
                 IF wrap THEN Append(mean_s, mean_s[1]) ELSE mean_s,
             phase_averaged_std |->
                 IF wrap THEN Append(std_s, std_s[1]) ELSE std_s,
             phase_averaged_covariance |-> <<>>,
             bin_counts |->
                 GroupLens(IF wrap THEN Append(binned, binned[1])
                           ELSE binned)])

(***************************************************************************)
(* phase_average_field                                                     *)
(***************************************************************************)
\* (frequency * t_arr) % 1.0; phase_offset is not read
FieldPhase(t_arr, frequency) ==
    Arr([i \in 1..Len(t_arr) |-> RMod(RMul(frequency, t_arr[i]), FieldPeriod)])

\* np.mean(group, axis=0)
ColumnMeanAsSum(group) ==
    Arr([c \in 1..Len(group[1]) |->
        RSum(Arr([i \in 1..Len(group) |-> group[i][c]]))])

ColumnMean(group) ==
    Arr([c \in 1..Len(group[1]) |->
        NpMean(Arr([i \in 1..Len(group) |-> group[i][c]]))])

\* group - group_mean
Centered(group, group_mean) ==
    Arr([i \in 1..Len(group) |->
        Arr([c \in 1..Len(group[i]) |-> RSub(group[i][c], group_mean[c])])])

\* np.cov(X, rowvar=False): columns are variables, N - 1 normalisation
NpCov(X) ==
    LET m == ColumnMean(X)
        d == Centered(X, m)
        k == Len(X[1])
    IN  Arr([p \in 1..k |-> Arr([q \in 1..k |->
            RDiv(RSum(Arr([i \in 1..Len(X) |-> RMul(d[i][p], d[i][q])])),
                 Num(Len(X) - 1))])])

\* np.full((k), np.nan) and np.full((k, k), np.nan)
NaNVector(k) == Arr([c \in 1..k |-> NaN])
NaNMatrix(k) == Arr([p \in 1..k |-> Arr([q \in 1..k |-> NaN])])

\* the loop body of "for group in binned_y_arr"
FieldGroupMean(group, y_arr) ==
    IF Len(group) > 1 THEN ColumnMean(group) ELSE NaNVector(Len(y_arr[1]))

FieldGroupCov(group, y_arr) ==
    IF Len(group) > 1
    THEN NpCov(Centered(group, ColumnMean(group)))
    ELSE NaNMatrix(Len(y_arr[1]))

\* np.sqrt(np.diagonal(cov, axis1=1, axis2=2))
FieldStd(covs) ==
    Arr([b \in 1..Len(covs) |->
        Arr([c \in 1..Len(covs[b]) |-> Sqrt(covs[b][c][c])])])

phase_average_field(a) ==
    LET grid == BinGrid(FieldPeriod, a.number_of_bins, a.bin_center_offset)
        phase_arr == FieldPhase(a.t_arr, a.frequency)
        bin_inds == BinInds(phase_arr, grid.bins)
        raw == BinnedGroups(a.y_arr, bin_inds, a.number_of_bins)
        binned == IF grid.bin_center_offset # Zero
                  THEN MergeWraparound(raw) ELSE raw
        covs == Arr([i \in 1..Len(binned) |-> FieldGroupCov(binned[i], a.y_arr)])
        means == Arr([i \in 1..Len(binned) |-> FieldGroupMean(binned[i], a.y_arr)])
        inds == ArgSort(grid.bin_midpoints)
        mids_s == Take(grid.bin_midpoints, inds)
        mean_s == Take(means, inds)
        cov_s == Take(covs, inds)
        wrap == a.include_wrap /\ Contains(mids_s, Zero)
        cov_w == IF wrap THEN Append(cov_s, cov_s[1]) ELSE cov_s
    IN  IF grid.raised # "none" THEN Raise(grid.raised)
        ELSE IF ~Monotonic(grid.bins) THEN Raise("ValueError")
        ELSE IF /\ Len(a.y_arr) = 0
                /\ \E i \in 1..Len(binned) : Len(binned[i]) <= 1
             THEN Raise("IndexError")
        ELSE Return(
            [bin_midpoints |->
                 IF wrap THEN Append(mids_s, FieldPeriod) ELSE mids_s,
             phase_averaged_mean |->
                 IF wrap THEN Append(mean_s, mean_s[1]) ELSE mean_s,
             phase_averaged_std |-> FieldStd(cov_w),
             phase_averaged_covariance |-> cov_w,
             bin_counts |->
                 GroupLens(IF wrap THEN Append(binned, binned[1])
                           ELSE binned)])

(***************************************************************************)
(* PhaseAverageResult accessors                                            *)
(***************************************************************************)
\* bin_midpoints / 360 if bin_midpoints.max() > 1.0 else bin_midpoints
get_bins_unconverted(r) == r.bin_midpoints

get_bins(r) ==
    IF RLess(One, SeqMax(r.bin_midpoints))
    THEN Arr([i \in 1..Len(r.bin_midpoints) |->
             RDiv(r.bin_midpoints[i], ArrayPeriod)])
    ELSE r.bin_midpoints

\* return self.bin_midpoints
get_bins_in_degrees(r) == r.bin_midpoints

\* return self.phase_averaged_std
get_std(r) == r.phase_averaged_std

\* return self.phase_averaged_covariance
get_variance(r) == r.phase_averaged_covariance

(***************************************************************************)
(* The inputs a caller passes.                                             *)
(***************************************************************************)
Times == {Zero, <<1, 4>>, <<7, 8>>}

\* time arrays: non-decreasing, at most MaxLen samples
TimeSeries ==
    {s \in UNION {[1..n -> Times] : n \in 0..MaxLen} :
        \A i \in 1..(Len(s) - 1) : RLeq(s[i], s[i + 1])}

Scalars == {Num(1), Num(2)}

\* k-component samples: a uniform vector and a ramp
Vectors == {Arr([c \in 1..NumComponents |-> Num(1)]),
            Arr([c \in 1..NumComponents |-> Num(c)])}

Frequencies == {Num(1), Num(2)}

PhaseOffsets == {Zero}

\* bin_center_offset in quarters of a bin width: negative, zero, a quarter,
\* a whole width, and one and a half widths (None gives the default half)
OffsetQuarters == {-1, 0, 1, 4, 6}

BinCenterOffsets(period, number_of_bins) ==
    {None} \cup {RDiv(RMul(Num(q), period), Num(4 * number_of_bins)) :
                    q \in OffsetQuarters}

\* per-sample time-step widths: constant 0.1, or growing 0.1, 0.2, ...
DeltaTs(n) == {Arr([i \in 1..n |-> <<1, 10>>]), Arr([i \in 1..n |-> Rat(i, 10)])}

BaseAndDeltaT(n) ==
    {<<"iter", None>>} \cup {<<"time", d>> : d \in DeltaTs(n)}

(***************************************************************************)
(* State: the arguments of one call (args), the PhaseAverageResult the     *)
(* caller holds (result), how the call ended (outcome) and which function  *)
(* was called (called).                                                    *)
(***************************************************************************)
Args(fn, t, y, f, po, m, bco, w, bd) ==
    [fn |-> fn, t_arr |-> t, y_arr |-> y, frequency |-> f,
     phase_offset |-> po, number_of_bins |-> m, bin_center_offset |-> bco,
     include_wrap |-> w, remove_phase_offset |-> FALSE,
     base |-> bd[1], deltaT |-> bd[2]]

\* what the caller's last accessor call returned: nothing yet
NoAccess == [method |-> "none", value |-> <<>>]

\* no call recorded, no accessor used
NoSession ==
    /\ history = <<>>
    /\ got = NoAccess

\* no AnimationControl constructed
NoControl ==
    /\ control = <<>>
    /\ frames = <<>>

\* no CaseReader read in progress
NoReader == reader = <<>>

NotCalled ==
    /\ result = EmptyResult
    /\ outcome = "none"
    /\ called = "none"
    /\ NoSession
    /\ NoControl
    /\ NoReader

InitArray ==
    /\ \E t \in TimeSeries, f \in Frequencies, po \in PhaseOffsets,
          m \in 1..MaxBins, w \in BOOLEAN :
         \E y \in [1..Len(t) -> Scalars],
            bco \in BinCenterOffsets(ArrayPeriod, m),
            bd \in BaseAndDeltaT(Len(t)) :
              args = Args("array", t, y, f, po, m, bco, w, bd)
    /\ NotCalled

InitField ==
    /\ \E t \in TimeSeries, f \in Frequencies, po \in PhaseOffsets,
          m \in 1..MaxBins, w \in BOOLEAN :
         \E y \in [1..Len(t) -> Vectors],
            bco \in BinCenterOffsets(FieldPeriod, m) :
              args = Args("field", t, y, f, po, m, bco, w, <<"iter", None>>)
    /\ NotCalled

\* the worked example: four samples a quarter period apart, four bins
ScenarioArgs ==
    Args("array", <<Zero, <<1, 4>>, <<1, 2>>, <<3, 4>>>>,
         <<Num(1), Num(2), Num(3), Num(4)>>, One, Zero, 4, Zero, TRUE,
         <<"iter", None>>)

InitScenario ==
    /\ args = ScenarioArgs
    /\ NotCalled

Init == InitArray \/ InitField \/ InitScenario

FinishClearingInputs(r) ==
    /\ outcome' = IF r.raised = "none" THEN "returned" ELSE r.raised
    /\ result' = IF r.raised = "none" THEN r.result ELSE result
    /\ args' = [args EXCEPT !.t_arr = <<>>, !.y_arr = <<>>]

FinishRememberingLast(r) ==
    /\ outcome' = IF r.raised = "none" THEN "returned" ELSE r.raised
    /\ result' = IF r.raised # "none" THEN result
                 ELSE IF result = r.result THEN EmptyResult ELSE r.result
    /\ UNCHANGED args

Finish(r) ==
    /\ outcome' = IF r.raised = "none" THEN "returned" ELSE r.raised
    /\ result' = IF r.raised = "none" THEN r.result ELSE result
    /\ UNCHANGED args

PhaseAverageArray ==
    /\ args.fn = "array"
    /\ called' = "array"
    /\ Finish(phase_average_array(args))
    /\ UNCHANGED <<sessionVars, controlVars, reader>>

PhaseAverageField ==
    /\ args.fn = "field"
    /\ called' = "field"
    /\ Finish(phase_average_field(args))
    /\ UNCHANGED <<sessionVars, controlVars, reader>>

Next == PhaseAverageArray \/ PhaseAverageField

Spec == Init /\ [][Next]_vars

(***************************************************************************)
(* A second family of calls: uniformly sampled series starting at or       *)
(* before time 0, frequencies of either sign and zero, phase offsets of    *)
(* either sign, and remove_phase_offset on or off.                         *)
(***************************************************************************)
SampleSpacing == <<1, 4>>

StartTimes == {<<-1, 2>>, Zero}

\* series lengths for which Fft is exact
SeriesLengths == {0, 1, 2, 4}

UniformTimes(n, t0) ==
    Arr([i \in 1..n |-> RAdd(t0, RMul(Num(i - 1), SampleSpacing))])

WideFrequencies == {Num(-1), Zero, Num(1), Num(2)}

\* phase_offset in quarters of the period
PhaseOffsetQuarters == {-5, -1, 0, 1}

WidePhaseOffsets(period) ==
    {RDiv(RMul(Num(q), period), Num(4)) : q \in PhaseOffsetQuarters}

InitWideArray ==
    /\ \E n \in SeriesLengths, t0 \in StartTimes, f \in WideFrequencies,
          po \in WidePhaseOffsets(ArrayPeriod), m \in 1..MaxBins,
          rpo \in BOOLEAN :
         \E y \in [1..n -> Scalars], bco \in {Zero, None},
            bd \in {<<"iter", None>>,
                    <<"time", Arr([i \in 1..n |-> <<1, 10>>])>>} :
              args = [Args("array", UniformTimes(n, t0), y, f, po, m, bco,
                           FALSE, bd)
                         EXCEPT !.remove_phase_offset = rpo]
    /\ NotCalled

InitWideField ==
    /\ \E n \in SeriesLengths, t0 \in StartTimes, f \in WideFrequencies,
          po \in WidePhaseOffsets(FieldPeriod), m \in 1..MaxBins :
         \E y \in [1..n -> Vectors], bco \in {Zero, None} :
              args = Args("field", UniformTimes(n, t0), y, f, po, m, bco,
                          FALSE, <<"iter", None>>)
    /\ NotCalled

InitWide == InitWideArray \/ InitWideField

SpecWide == InitWide /\ [][Next]_vars

(***************************************************************************)
(* A caller's session: it prepares inputs, calls the engine up to MaxCalls *)
(* times, in any order and with repeats, and reads the result it holds     *)
(* through the accessors of PhaseAverageResult.  history records, per      *)
(* call, the inputs passed and what came back.                             *)
(***************************************************************************)
SessionTimes == <<Zero, <<1, 4>>, <<7, 8>>>>

SessionScalars == <<Num(1), Num(2), Num(2)>>

SessionVectors ==
    <<Arr([c \in 1..NumComponents |-> Num(1)]),
      Arr([c \in 1..NumComponents |-> Num(c)]),
      Arr([c \in 1..NumComponents |-> Num(c)])>>

\* <<number_of_bins, bin_center_offset in periods, include_0_and_360/1>>:
\* default offset, no offset, a single bin, and a negative offset
SessionGrids ==
    {<<2, None, TRUE>>, <<2, Zero, TRUE>>, <<1, Zero, FALSE>>,
     <<2, <<-1, 8>>, FALSE>>}

SessionArrayArgs ==
    {Args("array", SessionTimes, SessionScalars, One, Zero, g[1],
          IF g[2] = None THEN None ELSE RMul(g[2], ArrayPeriod), g[3],
          IF g[1] = 1
          THEN <<"time", Arr([i \in 1..Len(SessionTimes) |-> Rat(i, 10)])>>
          ELSE <<"iter", None>>) : g \in SessionGrids}

SessionFieldArgs ==
    {Args("field", SessionTimes, SessionVectors, One, Zero, g[1],
          IF g[2] = None THEN None ELSE RMul(g[2], FieldPeriod), g[3],
          <<"iter", None>>) : g \in SessionGrids}

InitSession ==
    /\ \/ args \in SessionArrayArgs
       \/ args \in SessionFieldArgs
    /\ NotCalled

\* the caller sets up the inputs of its next call
NewInputs ==
    /\ Len(history) < MaxCalls
    /\ \/ \E a \in SessionArrayArgs : args' = a
       \/ \E a \in SessionFieldArgs : args' = a
    /\ got' = NoAccess
    /\ UNCHANGED <<result, outcome, called, history, controlVars, reader>>

Recorded ==
    /\ history' = Append(history,
                         [args |-> args, outcome |-> outcome',
                          result |-> IF outcome' = "returned"
                                     THEN result' ELSE EmptyResult])
    /\ got' = NoAccess
    /\ UNCHANGED <<controlVars, reader>>

CallArray ==
    /\ Len(history) < MaxCalls
    /\ args.fn = "array"
    /\ called' = "array"
    /\ Finish(phase_average_array(args))
    /\ Recorded

CallField ==
    /\ Len(history) < MaxCalls
    /\ args.fn = "field"
    /\ called' = "field"
    /\ Finish(phase_average_field(args))
    /\ Recorded

\* an accessor call on the result the caller holds
Access(method, value) ==
    /\ outcome = "returned"
    /\ got' = [method |-> method, value |-> value]
    /\ UNCHANGED <<engineVars, history, controlVars, reader>>

GetBins == Access("get_bins", get_bins(result))

GetBinsInDegrees == Access("get_bins_in_degrees", get_bins_in_degrees(result))

GetVariance == Access("get_variance", get_variance(result))

NextSession ==
    \/ NewInputs
    \/ CallArray
    \/ CallField
    \/ GetBins
    \/ GetBinsInDegrees
    \/ GetVariance

SpecSession == InitSession /\ [][NextSession]_vars

(***************************************************************************)
(* AnimationControl.  Times are whole numbers; the defaults -1e10 and 1e10 *)
(* of the time window are limits beyond every time drawn.  An optional     *)
(* argument is <<>> for None and <<x>> for a value x.  Indices count from  *)
(* 0 as in the code.                                                       *)
(***************************************************************************)
Nothing == <<>>
Some(x) == <<x>>

At(n) == [finite |-> TRUE, at |-> n]
MinusE10 == [finite |-> FALSE, at |-> -1]
PlusE10 == [finite |-> FALSE, at |-> 1]

\* limit < t and t < limit for a time t drawn by the model
Below(limit, t) == IF limit.finite THEN limit.at < t ELSE limit.at < 0
Above(limit, t) == IF limit.finite THEN t < limit.at ELSE limit.at > 0

\* AnimationControl.__init__
NewControl ==
    [time_setting |-> "every timestep", snap_times |-> Some(<<>>),
     step |-> -1, time_indicies |-> Some(<<>>),
     start_time |-> MinusE10, end_time |-> PlusE10]

\* the outcome of a call on the object: which method, how it ended, what it
\* returned, the t_arr it was given, and how many calls were made so far
Frames(op, out, value, t_arr, ok) ==
    [op |-> op, outcome |-> out, value |-> value, t_arr |-> t_arr,
     calls |-> frames.calls + 1, all_set |-> ok]

\* start_and_end_time(start_time, end_time)
start_and_end_time(c, start_time, end_time) ==
    [c EXCEPT !.start_time = start_time, !.end_time = end_time]

\* set_time_setting(setting, step, snap_times, indicies): the object after
\* the call and the exception raised, if any
set_time_setting(c, setting, step, snap_times, indicies) ==
    LET c1 == [c EXCEPT !.time_setting = setting]
        c2 == [c1 EXCEPT !.step = step]
    IN  IF setting = "every n timesteps" /\ step < 1
        THEN [raised |-> "ValueError", control |-> c1]
        ELSE IF setting = "snap to times" /\ snap_times = Nothing
        THEN [raised |-> "ValueError", control |-> c2]
        ELSE IF setting = "indexed" /\ indicies = Nothing
        THEN [raised |-> "ValueError", control |-> c2]
        ELSE [raised |-> "none",
              control |-> [c2 EXCEPT !.snap_times = snap_times,
                                     !.time_indicies = indicies]]

\* np.arange(len(t_arr))[(t_arr > start_time) & (t_arr < end_time)]
RECURSIVE Masked(_, _, _)
Masked(c, t_arr, i) ==
    IF i > Len(t_arr) THEN <<>>
    ELSE (IF Below(c.start_time, t_arr[i]) /\ Above(c.end_time, t_arr[i])
          THEN <<i - 1>> ELSE <<>>) \o Masked(c, t_arr, i + 1)

\* index_arr[::step] for step # 0
Strided(index_arr, step) ==
    LET n == Len(index_arr)
        count == IF step > 0 THEN (n + step - 1) \div step
                 ELSE (n - step - 1) \div (-step)
    IN  Arr([k \in 1..count |->
            IF step > 0 THEN index_arr[1 + (k - 1) * step]
            ELSE index_arr[n + (k - 1) * step]])

Distance(a, b) == IF a < b THEN b - a ELSE a - b

\* np.argmin(np.abs(t_arr - snap_time)): the first of the nearest entries
ArgMin(t_arr, snap_time) ==
    (CHOOSE i \in 1..Len(t_arr) :
        /\ \A j \in 1..Len(t_arr) :
              Distance(t_arr[i], snap_time) <= Distance(t_arr[j], snap_time)
        /\ \A j \in 1..(i - 1) :
              Distance(t_arr[j], snap_time) # Distance(t_arr[i], snap_time))
    - 1

\* get_frame_time_indicies(t_arr)
get_frame_time_indicies(c, t_arr) ==
    LET index_arr == Masked(c, t_arr, 1)
        ret(v) == [raised |-> "none", value |-> v]
        err(e) == [raised |-> e, value |-> <<>>]
    IN  CASE c.time_setting = "every timestep" -> ret(Some(index_arr))
          [] c.time_setting = "every n timesteps" ->
                \* slice step cannot be zero
                IF c.step = 0 THEN err("ValueError")
                ELSE ret(Some(Strided(index_arr, c.step)))
          [] c.time_setting = "snap to times" ->
                \* iterating None
                IF c.snap_times = Nothing THEN err("TypeError")
                ELSE LET snaps == c.snap_times[1]
                         inds == Arr([k \in 1..Len(snaps) |->
                                     ArgMin(t_arr, snaps[k])])
                     IN  \* argmin of an empty t_arr
                         IF snaps # <<>> /\ t_arr = <<>>
                         THEN err("ValueError")
                         \* an empty list makes a float array, not an index
                         ELSE IF snaps = <<>> THEN err("IndexError")
                         ELSE IF \E k \in 1..Len(inds) :
                                    inds[k] >= Len(index_arr)
                         THEN err("IndexError")
                         ELSE ret(Some(Arr([k \in 1..Len(inds) |->
                                          index_arr[inds[k] + 1]])))
          [] c.time_setting = "indexed" -> ret(c.time_indicies)

(***************************************************************************)
(* A user of one AnimationControl object: it sets the time window, sets    *)
(* the time setting and asks for frame indices, up to MaxCalls calls.      *)
(***************************************************************************)
TimeSettings ==
    {"every timestep", "every n timesteps", "snap to times", "indexed"}

Steps == {0, 1, 2}

SnapTimes == {Nothing, Some(<<1>>), Some(<<4, 5>>)}

Indicies == {Nothing, Some(<<0>>), Some(<<2, 7>>)}

\* <<start_time, end_time>>
Windows == {<<MinusE10, PlusE10>>, <<At(1), PlusE10>>, <<At(0), At(5)>>}

FrameTimes == {<<>>, <<2, 5>>, <<0, 2, 5>>}

\* the engine is not called while the object is used
EngineIdle ==
    /\ args = ScenarioArgs
    /\ result = EmptyResult
    /\ outcome = "none"
    /\ called = "none"

InitControl ==
    /\ control = NewControl
    /\ frames = [op |-> "none", outcome |-> "none", value |-> Nothing,
                 t_arr |-> <<>>, calls |-> 0, all_set |-> TRUE]
    /\ EngineIdle
    /\ NoSession
    /\ NoReader

StartAndEndTime ==
    /\ frames.calls < MaxCalls
    /\ \E w \in Windows :
          control' = start_and_end_time(control, w[1], w[2])
    /\ frames' = Frames("start_and_end_time", "returned", Nothing, <<>>,
                        frames.all_set)
    /\ UNCHANGED <<engineVars, sessionVars, reader>>

SetTimeSetting ==
    /\ frames.calls < MaxCalls
    /\ \E setting \in TimeSettings, step \in Steps, snap_times \in SnapTimes,
          indicies \in Indicies :
         LET r == set_time_setting(control, setting, step, snap_times,
                                   indicies)
         IN  /\ control' = r.control
             /\ frames' = Frames("set_time_setting",
                                 IF r.raised = "none" THEN "returned"
                                 ELSE r.raised,
                                 Nothing, <<>>,
                                 frames.all_set /\ r.raised = "none")
    /\ UNCHANGED <<engineVars, sessionVars, reader>>

GetFrameTimeIndicies ==
    /\ frames.calls < MaxCalls
    /\ \E t_arr \in FrameTimes :
         LET r == get_frame_time_indicies(control, t_arr)
         IN  frames' = Frames("get_frame_time_indicies",
                              IF r.raised = "none" THEN "returned"
                              ELSE r.raised,
                              r.value, t_arr, frames.all_set)
    /\ UNCHANGED <<control, engineVars, sessionVars, reader>>

NextControl == StartAndEndTime \/ SetTimeSetting \/ GetFrameTimeIndicies

SpecControl == InitControl /\ [][NextControl]_vars

(***************************************************************************)
(* CaseReader with time_dir = "combined": force(), probe() and             *)
(* turbine_output() read the file of the first time directory and then,    *)
(* directory by directory in ascending order, crop the next file to the    *)
(* times beyond the current maximum and append it.  Times are whole        *)
(* numbers; a data row is tagged <<directory, row>>.                       *)
(***************************************************************************)
\* ForceFile.crop_by_time(lower_limit=...): self.time >= lower_limit
ForceKeeps(t, lower_limit) == t >= lower_limit

\* ProbeFile.crop_by_time and TurbineOutputFile.crop_time:
\* (self.time > lower_limit) & (self.time < upper_limit), upper_limit 1E10
ProbeKeeps(t, lower_limit) == t > lower_limit

Keeps(kind, t, lower_limit) ==
    IF kind = "force" THEN ForceKeeps(t, lower_limit)
    ELSE ProbeKeeps(t, lower_limit)

RECURSIVE Crop(_, _, _, _)
\* the rows of a file, <<time, data>> pairs, that the crop keeps
Crop(kind, time, data, lower_limit) ==
    IF time = <<>> THEN <<>>
    ELSE (IF Keeps(kind, Head(time), lower_limit)
          THEN <<<<Head(time), Head(data)>>>> ELSE <<>>)
             \o Crop(kind, Tail(time), Tail(data), lower_limit)

\* file_reader.time.max()
RECURSIVE MaxTime(_)
MaxTime(time) ==
    IF Len(time) = 1 THEN time[1]
    ELSE LET m == MaxTime(Tail(time)) IN IF Head(time) > m THEN Head(time) ELSE m

\* one pass of the loop over time_dirs_to_combine
Combine(kind, file_reader, new_file_reader) ==
    LET current_max_time == MaxTime(file_reader.time)
        kept == Crop(kind, new_file_reader.time, new_file_reader.data,
                     current_max_time)
    IN  [time |-> file_reader.time \o Arr([i \in 1..Len(kept) |-> kept[i][1]]),
         data |-> file_reader.data \o Arr([i \in 1..Len(kept) |-> kept[i][2]])]

\* the time column of a file: strictly increasing, two or three rows
FileTimes ==
    {<<0, 1>>, <<0, 2>>, <<1, 2>>, <<1, 3>>, <<2, 3>>, <<0, 1, 2>>,
     <<1, 2, 3>>, <<2, 3, 4>>}

\* a file as read: its times and its rows
FileOf(dir, time) ==
    [time |-> time, data |-> Arr([i \in 1..Len(time) |-> <<dir, i>>])]

ReaderKinds == {"force", "probe", "turbine_output"}

InitReader ==
    /\ \E kind \in ReaderKinds, n \in 1..MaxDirs :
         \E files \in [1..n -> FileTimes] :
            reader = [kind |-> kind, phase |-> "called",
                      time |-> <<>>, data |-> <<>>,
                      pending |-> Arr([d \in 1..n |-> FileOf(d, files[d])])]
    /\ EngineIdle
    /\ NoSession
    /\ NoControl

\* file_reader.read() of the first time directory
ReadFirst ==
    /\ reader.phase = "called"
    /\ reader' = [reader EXCEPT !.phase = "combining",
                                !.time = Head(reader.pending).time,
                                !.data = Head(reader.pending).data,
                                !.pending = Tail(reader.pending)]
    /\ UNCHANGED <<engineVars, sessionVars, controlVars>>

\* the next time directory is read, cropped and appended
CombineNext ==
    /\ reader.phase = "combining"
    /\ reader.pending # <<>>
    /\ LET c == Combine(reader.kind, reader, Head(reader.pending))
       IN  reader' = [reader EXCEPT !.time = c.time, !.data = c.data,
                                    !.pending = Tail(reader.pending)]
    /\ UNCHANGED <<engineVars, sessionVars, controlVars>>

\* return file_reader
ReturnReader ==
    /\ reader.phase = "combining"
    /\ reader.pending = <<>>
    /\ reader' = [reader EXCEPT !.phase = "returned"]
    /\ UNCHANGED <<engineVars, sessionVars, controlVars>>

NextReader == ReadFirst \/ CombineNext \/ ReturnReader

SpecReader == InitReader /\ [][NextReader]_vars

(***************************************************************************)
(* Vocabulary of the properties.  A logical bin is the half-open circular  *)
(* interval of one bin width centred on its midpoint; these definitions    *)
(* count samples per logical bin from the phases alone, independently of   *)
(* how the engine groups them.                                             *)
(***************************************************************************)
Returned == outcome = "returned"
NSamples == Len(args.t_arr)
NBins == args.number_of_bins
Period == IF args.fn = "array" THEN ArrayPeriod ELSE FieldPeriod
Offset == EffectiveOffset(Period, NBins, args.bin_center_offset)
BinWidth == RDiv(Period, Num(NBins))

Phases ==
    IF args.fn = "array"
    THEN ArrayPhase(args.t_arr, args.frequency, args.phase_offset)
    ELSE FieldPhase(args.t_arr, args.frequency)

\* phase lies in [mid - width/2, mid + width/2) modulo the period
InLogicalBin(phase, mid) ==
    RLess(RMod(RSub(phase, RSub(mid, RMul(BinWidth, Half))), Period),
          BinWidth)

LogicalCount(mid) ==
    Cardinality({i \in 1..NSamples : InLogicalBin(Phases[i], mid)})

RECURSIVE SamplesIn(_, _, _)
SamplesIn(ys, phs, mid) ==
    IF ys = <<>> THEN <<>>
    ELSE (IF InLogicalBin(Head(phs), mid) THEN <<Head(ys)>> ELSE <<>>)
             \o SamplesIn(Tail(ys), Tail(phs), mid)

LogicalGroup(mid) == SamplesIn(args.y_arr, Phases, mid)

Last(s) == s[Len(s)]

\* the result carries the trailing wraparound duplicate
HasDuplicate ==
    /\ Len(result.bin_midpoints) = NBins + 1
    /\ Last(result.bin_midpoints) = Period

ConstantSeries ==
    /\ NSamples >= 1
    /\ \A i \in 1..NSamples : args.y_arr[i] = args.y_arr[1]

ZeroMatrix(k) == [p \in 1..k |-> [q \in 1..k |-> Zero]]

(***************************************************************************)
(* C1.  With bin_center_offset == 0 the counts of a returned result sum to *)
(* the number of samples N, in both functions: no sample is dropped or     *)
(* counted twice.                                                          *)
(***************************************************************************)
C1_CountsSumToN ==
    (Returned /\ args.bin_center_offset = Zero)
        => IntSum(result.bin_counts) = NSamples

C1_Witness ==
    /\ Returned
    /\ args.bin_center_offset = Zero
    /\ NSamples >= 2
    /\ NBins >= 2
    /\ \E b \in 1..Len(result.bin_counts) : result.bin_counts[b] >= 2

(***************************************************************************)
(* C2.  As claimed: with an accepted nonzero bin_center_offset (the        *)
(* default included) and either value of the wraparound flag, the counts   *)
(* of the returned result sum to N.                                        *)
(***************************************************************************)
C2_Original ==
    (Returned /\ Offset # Zero) => IntSum(result.bin_counts) = NSamples

(***************************************************************************)
(* C2, amended.  With an accepted nonzero bin_center_offset the counts of  *)
(* the returned result, leaving out the trailing wraparound duplicate      *)
(* entry when one was appended, sum to N.                                  *)
(***************************************************************************)
C2_CountsSumToNWithoutDuplicate ==
    (Returned /\ Offset # Zero)
        => IntSum(result.bin_counts)
             - (IF HasDuplicate THEN Last(result.bin_counts) ELSE 0)
           = NSamples

C2_Witness ==
    /\ Returned
    /\ Offset # Zero
    /\ HasDuplicate
    /\ Last(result.bin_counts) >= 1
    /\ NSamples >= 2

(***************************************************************************)
(* C3.  As claimed: in every returned result the four per-bin arrays have  *)
(* the same length.                                                        *)
(***************************************************************************)
C3_EqualLengths ==
    Returned =>
        /\ Len(result.bin_midpoints) = Len(result.phase_averaged_mean)
        /\ Len(result.bin_midpoints) = Len(result.phase_averaged_std)
        /\ Len(result.bin_midpoints) = Len(result.bin_counts)

(***************************************************************************)
(* C4.  As claimed: at every position b of a returned result the count,    *)
(* the mean and the dispersion describe the bin whose midpoint is          *)
(* bin_midpoints[b]; bin_counts[b] is the number of samples whose phase    *)
(* fell in that bin (count-based reduction).                               *)
(***************************************************************************)
C4_AlignedWithMidpoints ==
    (Returned /\ args.base = "iter") =>
        \A b \in 1..Len(result.bin_midpoints) :
            LET mid == result.bin_midpoints[b]
                group == LogicalGroup(mid)
            IN  /\ b <= Len(result.bin_counts)
                /\ result.bin_counts[b] = LogicalCount(mid)
                /\ IF args.fn = "array"
                   THEN /\ result.phase_averaged_mean[b] =
                              (IF Len(group) > 0 THEN NpMean(group) ELSE Zero)
                        /\ result.phase_averaged_std[b] =
                              (IF Len(group) > 0 THEN NpStd(group)
                               ELSE Sqrt(Zero))
                   ELSE /\ result.phase_averaged_mean[b] =
                              FieldGroupMean(group, args.y_arr)
                        /\ result.phase_averaged_covariance[b] =
                              FieldGroupCov(group, args.y_arr)

(***************************************************************************)
(* C5.  In every returned result the bin midpoints are strictly ascending, *)
(* except for the optional trailing wraparound duplicate, whose midpoint   *)
(* is bin_midpoints[0] + period (360 or 1).                                *)
(***************************************************************************)
C5_MidpointsAscending ==
    Returned =>
        LET m == result.bin_midpoints
        IN  /\ Len(m) \in {NBins, NBins + 1}
            /\ \A i \in 1..(NBins - 1) : RLess(m[i], m[i + 1])
            /\ Len(m) = NBins + 1 => Last(m) = RAdd(m[1], Period)

C5_Witness ==
    /\ Returned
    /\ NBins >= 3
    /\ Len(result.bin_midpoints) = NBins + 1

(***************************************************************************)
(* C6.  As claimed: when the wraparound flag is set and a bin with         *)
(* midpoint exactly 0 exists, the result gets one extra trailing entry at  *)
(* midpoint = period whose mean, dispersion and sample count are those of  *)
(* the bin with midpoint 0; otherwise no entry is appended.                *)
(***************************************************************************)
C6_WraparoundDuplicate ==
    Returned =>
        LET m == result.bin_midpoints
            zero == {b \in 1..NBins : m[b] = Zero}
        IN  IF args.include_wrap /\ zero # {}
            THEN /\ Len(m) = NBins + 1
                 /\ Last(m) = Period
                 /\ \A z \in zero :
                      /\ Last(result.phase_averaged_mean) =
                             result.phase_averaged_mean[z]
                      /\ Last(result.phase_averaged_std) =
                             result.phase_averaged_std[z]
                      /\ args.fn = "field" =>
                             Last(result.phase_averaged_covariance) =
                                 result.phase_averaged_covariance[z]
                 /\ Last(result.bin_counts) = LogicalCount(Zero)
            ELSE /\ Len(m) = NBins
                 /\ Len(result.phase_averaged_mean) = NBins
                 /\ Len(result.phase_averaged_std) = NBins

C9_Scenario ==
    (Returned /\ args = ScenarioArgs) =>
        /\ result.bin_counts = <<1, 1, 1, 1>>
        /\ get_bins(result) = <<<<1, 8>>, <<3, 8>>, <<5, 8>>, <<7, 8>>>>
        /\ result.phase_averaged_mean = <<Num(1), Num(2), Num(3), Num(4)>>
        /\ result.phase_averaged_std =
               <<Sqrt(Zero), Sqrt(Zero), Sqrt(Zero), Sqrt(Zero)>>

(***************************************************************************)
(* C10.  As claimed: phase_average_array with a uniform deltaT returns in  *)
(* every bin, with base = "time", the mean that base = "iter" returns on   *)
(* the same inputs and bin configuration, the merged wraparound bin of a   *)
(* nonzero bin_center_offset included.                                     *)
(***************************************************************************)
UniformDeltaT ==
    /\ args.deltaT # None
    /\ \A i \in 1..Len(args.deltaT) : args.deltaT[i] = args.deltaT[1]

C10_TimeWeightedEqualsCountBased ==
    (Returned /\ called = "array" /\ args.base = "time" /\ UniformDeltaT) =>
        result.phase_averaged_mean =
            phase_average_array([args EXCEPT !.base = "iter"])
                .result.phase_averaged_mean

(***************************************************************************)
(* C11.  As claimed: phase_average_array with base = "time" reports for    *)
(* every non-empty logical bin B the mean sum(value[i] * deltaT[i]) /      *)
(* sum(deltaT[i]) over the samples i in B, the merged wraparound bin       *)
(* included.                                                               *)
(***************************************************************************)
WeightedMean(mid) ==
    LET vdt == Arr([i \in 1..NSamples |->
                   RMul(args.y_arr[i], args.deltaT[i])])
    IN  RDiv(RSum(SamplesIn(vdt, Phases, mid)),
             RSum(SamplesIn(args.deltaT, Phases, mid)))

C11_TimeWeightedMean ==
    (Returned /\ called = "array" /\ args.base = "time") =>
        \A b \in 1..Len(result.bin_midpoints) :
            LogicalCount(result.bin_midpoints[b]) >= 1 =>
                result.phase_averaged_mean[b] =
                    WeightedMean(result.bin_midpoints[b])

(***************************************************************************)
(* C12.  As claimed: the phase of sample i is                              *)
(* (frequency * time[i] * unit_factor + phase_offset) mod period, in       *)
(* [0, period), with unit_factor = period = 360 (array) or 1 (field).      *)
(* Observed on a result without bin offset and without phase removal:      *)
(* the count of bin b is the number of samples whose phase, so computed,   *)
(* lies in [(b-1) * width, b * width).                                     *)
(***************************************************************************)
ClaimedPhases ==
    Arr([i \in 1..NSamples |->
        RMod(RAdd(RMul(RMul(args.frequency, args.t_arr[i]), Period),
                  args.phase_offset),
             Period)])

ClaimedCount(b) ==
    Cardinality({i \in 1..NSamples :
        /\ RLeq(RMul(Num(b - 1), BinWidth), ClaimedPhases[i])
        /\ RLess(ClaimedPhases[i], RMul(Num(b), BinWidth))})

C12_PhaseOfSamples ==
    (Returned /\ ~args.remove_phase_offset /\ Offset = Zero) =>
        \A b \in 1..NBins : result.bin_counts[b] = ClaimedCount(b)

(***************************************************************************)
(* C13.  As claimed (number_of_bins >= 2, at least one sample): a nonzero  *)
(* bin_center_offset that is negative or greater than                      *)
(* period/(number_of_bins-1) fails with ValueError; every offset with      *)
(* 0 <= offset <= period/(number_of_bins-1) is accepted and yields a       *)
(* result.                                                                 *)
(***************************************************************************)
OffsetLimit == RDiv(Period, Num(NBins - 1))

C13_OffsetValidation ==
    (called # "none" /\ NBins >= 2 /\ NSamples >= 1) =>
        IF RLess(Offset, Zero) \/ RLess(OffsetLimit, Offset)
        THEN outcome = "ValueError"
        ELSE Returned

C15_SingleBinOffsetRejected ==
    (called # "none" /\ NBins = 1 /\ Offset # Zero) => outcome = "ValueError"

(***************************************************************************)
(* C16.  As claimed: a call with frequency <= 0 is rejected; no result is  *)
(* returned, in either variant.                                            *)
(***************************************************************************)
C16_NonPositiveFrequencyRejected ==
    (called # "none" /\ RLeq(args.frequency, Zero)) => ~Returned

(***************************************************************************)
(* C17.  As claimed: a call with N = 0 and an otherwise valid              *)
(* configuration returns a well-formed result: every count 0 and every     *)
(* mean/dispersion the variant's empty-bin value.                          *)
(***************************************************************************)
\* no offset, or an offset of at most one bin width with two or more bins
ValidGrid ==
    \/ Offset = Zero
    \/ /\ NBins >= 2
       /\ RLess(Zero, Offset)
       /\ RLeq(Offset, BinWidth)

C17_EmptyInput ==
    (called # "none" /\ NSamples = 0 /\ ValidGrid) =>
        /\ Returned
        /\ Len(result.bin_midpoints) >= NBins
        /\ \A b \in 1..Len(result.bin_counts) : result.bin_counts[b] = 0
        /\ \A b \in 1..Len(result.bin_midpoints) :
              IF args.fn = "array"
              THEN /\ result.phase_averaged_mean[b] = Zero
                   /\ result.phase_averaged_std[b] = Sqrt(Zero)
              ELSE /\ result.phase_averaged_mean[b] =
                          NaNVector(NumComponents)
                   /\ result.phase_averaged_covariance[b] =
                          NaNMatrix(NumComponents)

(***************************************************************************)
(* C18.  As claimed: with remove_phase_offset and no FFT bin within 1e-3   *)
(* of the target frequency the call ends in an error; it does not return   *)
(* a result computed from a default index.                                 *)
(***************************************************************************)
FrequencyResolved ==
    \E i \in 1..NSamples :
        FrequencyMatch(FftFreq(NSamples, MeanDiff(args.t_arr)),
                       args.frequency)[i]

C18_UnresolvedFrequencySurfaced ==
    (called = "array" /\ args.remove_phase_offset /\ ~FrequencyResolved)
        => ~Returned

(***************************************************************************)
(* C19.  As claimed: empty bins never raise and are reported in-band: in   *)
(* phase_average_array mean 0 and std 0, in phase_average_field a mean     *)
(* vector of k NaNs and a k-by-k covariance matrix of NaNs.                *)
(***************************************************************************)
C19_EmptyBins ==
    (called # "none" /\ ValidGrid) =>
        /\ Returned
        /\ \A b \in 1..Len(result.bin_midpoints) :
              LogicalCount(result.bin_midpoints[b]) = 0 =>
                  IF args.fn = "array"
                  THEN /\ result.phase_averaged_mean[b] = Zero
                       /\ result.phase_averaged_std[b] = Sqrt(Zero)
                  ELSE /\ result.phase_averaged_mean[b] =
                              NaNVector(NumComponents)
                       /\ result.phase_averaged_covariance[b] =
                              NaNMatrix(NumComponents)

(***************************************************************************)
(* C20.  As claimed: in phase_average_field a bin holding exactly one      *)
(* sample has mean equal to that sample's vector and a NaN covariance      *)
(* matrix.                                                                 *)
(***************************************************************************)
C20_SingleSampleBin ==
    (Returned /\ called = "field") =>
        \A b \in 1..Len(result.bin_midpoints) :
            LogicalCount(result.bin_midpoints[b]) = 1 =>
                /\ result.phase_averaged_mean[b] =
                       LogicalGroup(result.bin_midpoints[b])[1]
                /\ result.phase_averaged_covariance[b] =
                       NaNMatrix(NumComponents)

(***************************************************************************)
(* Vocabulary of the accessor properties: the period of the units in which *)
(* the function that produced the held result stores its midpoints.        *)
(***************************************************************************)
StoredPeriod == IF called = "array" THEN ArrayPeriod ELSE FieldPeriod

Got(method) == got.method = method

(***************************************************************************)
(* C21.  get_bins() on a result of phase_average_array or                  *)
(* phase_average_field returns the midpoints as cycle fractions, each in   *)
(* [0, 1] and equal to the stored midpoint divided by the period of its    *)
(* units, and a call of get_bins() leaves the stored result unchanged.     *)
(***************************************************************************)
C21_GetBinsValue ==
    Got("get_bins") =>
        /\ Len(got.value) = Len(result.bin_midpoints)
        /\ \A i \in 1..Len(got.value) :
              /\ RLeq(Zero, got.value[i])
              /\ RLeq(got.value[i], One)
              /\ got.value[i] = RDiv(result.bin_midpoints[i], StoredPeriod)

C21_GetBinsStep ==
    (got'.method = "get_bins" /\ history' = history) => result' = result

C21_GetBins == [](C21_GetBinsValue) /\ [][C21_GetBinsStep]_vars

C21_Witness ==
    /\ Got("get_bins")
    /\ called = "array"
    /\ Len(got.value) = 3
    /\ got.value[3] = One
    /\ result.bin_midpoints[3] = ArrayPeriod

(***************************************************************************)
(* C22.  As claimed: get_bins_in_degrees() returns the midpoints in        *)
(* degrees, each in [0, 360] and equal to 360 times the value get_bins()   *)
(* returns, for results of both functions.                                 *)
(***************************************************************************)
C22_DegreesAre360TimesBins ==
    Got("get_bins_in_degrees") =>
        /\ Len(got.value) = Len(get_bins(result))
        /\ \A i \in 1..Len(got.value) :
              /\ RLeq(got.value[i], Num(Degrees))
              /\ got.value[i] = RMul(Num(Degrees), get_bins(result)[i])

(***************************************************************************)
(* C23.  As claimed: get_variance() returns per bin the square of what     *)
(* get_std() returns: the value itself for a phase_average_array result,   *)
(* the diagonal of the matrix for a phase_average_field result.            *)
(***************************************************************************)
\* the square of a standard deviation held as a square root
Squared(std) == std.radicand

C23_VarianceIsSquaredStd ==
    Got("get_variance") =>
        /\ Len(got.value) = Len(get_std(result))
        /\ \A b \in 1..Len(got.value) :
              IF called = "array"
              THEN got.value[b] = Squared(get_std(result)[b])
              ELSE \A c \in 1..NumComponents :
                       got.value[b][c][c] = Squared(get_std(result)[b][c])

(***************************************************************************)
(* C24.  Two calls of the same function with identical inputs and          *)
(* configuration, wherever they stand in the caller's sequence of calls,   *)
(* end the same way and return results equal in every field.               *)
(***************************************************************************)
SameInputs(c, d) ==
    /\ c.args.fn = d.args.fn
    /\ c.args = d.args

C25_CallStep ==
    Len(history') > Len(history) =>
        /\ args'.t_arr = args.t_arr
        /\ args'.y_arr = args.y_arr
        /\ args'.deltaT = args.deltaT
        /\ history'[Len(history')].args = args

C25_InputsUnchanged == [][C25_CallStep]_vars

C25_Witness ==
    /\ Len(history) = 2
    /\ history[1].outcome = "returned"
    /\ history[1].args.base = "time"
    /\ history[2].outcome = "ValueError"
    /\ args = history[2].args
    /\ Len(args.t_arr) = Len(SessionTimes)

(***************************************************************************)
(* Vocabulary of the binning properties: the bin grid the call builds, the *)
(* raw interval index of every sample, and the groups of sample numbers    *)
(* after the wraparound merge.                                             *)
(***************************************************************************)
Grid == BinGrid(Period, NBins, args.bin_center_offset)

RawIndex == BinInds(Phases, Grid.bins)

SampleGroups ==
    LET raw == BinnedGroups(Arr([i \in 1..NSamples |-> i]), RawIndex, NBins)
    IN  IF Grid.bin_center_offset # Zero THEN MergeWraparound(raw) ELSE raw

Members(group) == {group[j] : j \in 1..Len(group)}

C27_EdgesStrictlyIncreasing ==
    (called # "none" /\ NBins >= 2 /\ NSamples >= 1
        /\ Grid.raised = "none") =>
        /\ Grid.bins[1] = Zero
        /\ Last(Grid.bins) = Period
        /\ \A i \in 1..(Len(Grid.bins) - 1) :
              RLess(Grid.bins[i], Grid.bins[i + 1])
        /\ Returned

(***************************************************************************)
(* C29.  As claimed: a set_time_setting call that raises ValueError leaves *)
(* time_setting, step, snap_times and time_indicies as they were.          *)
(***************************************************************************)
C29_FailedCallStep ==
    (/\ frames'.calls = frames.calls + 1
     /\ frames'.op = "set_time_setting"
     /\ frames'.outcome = "ValueError") =>
        /\ control'.time_setting = control.time_setting
        /\ control'.step = control.step
        /\ control'.snap_times = control.snap_times
        /\ control'.time_indicies = control.time_indicies

C29_SetTimeSettingAllOrNothing == [][C29_FailedCallStep]_vars

(***************************************************************************)
(* C30.  As claimed: after start_and_end_time calls and set_time_setting   *)
(* calls that all succeeded, get_frame_time_indicies(t_arr) does not fail  *)
(* and returns only indices i of t_arr with start_time < t_arr[i] <        *)
(* end_time, in every mode; in "snap to times" mode it returns, per snap   *)
(* time, the index of the nearest entry of t_arr.                          *)
(***************************************************************************)
InWindow(t_arr, i) ==
    /\ i \in 0..(Len(t_arr) - 1)
    /\ Below(control.start_time, t_arr[i + 1])
    /\ Above(control.end_time, t_arr[i + 1])

C30_FramesInsideWindow ==
    (/\ frames.op = "get_frame_time_indicies"
     /\ frames.all_set
     /\ frames.t_arr # <<>>) =>
        /\ frames.outcome = "returned"
        /\ frames.value # Nothing
        /\ \A k \in 1..Len(frames.value[1]) :
              InWindow(frames.t_arr, frames.value[1][k])
        /\ control.time_setting = "snap to times" =>
              frames.value[1] =
                  Arr([k \in 1..Len(control.snap_times[1]) |->
                      ArgMin(frames.t_arr, control.snap_times[1][k])])

(***************************************************************************)
(* C28.  As claimed: in combined mode, with strictly increasing times in   *)
(* every file, the concatenated time array is strictly increasing after    *)
(* every directory is appended, and time and data have the same number of  *)
(* rows, for force(), probe() and turbine_output().                        *)
(***************************************************************************)
C28_CombinedTimesStrictlyIncreasing ==
    reader.phase \in {"combining", "returned"} =>
        /\ \A i \in 1..(Len(reader.time) - 1) :
              reader.time[i] < reader.time[i + 1]
        /\ Len(reader.data) = Len(reader.time)

====
